---- MODULE Spec2Model ----
(***************************************************************************)
(* Model of the blog template's logic:                                     *)
(*   - utils/mdx-utils.js   : directory scan, date sort, post lookup and   *)
(*                            next/previous navigation;                    *)
(*   - getGlobalData        : environment-driven configuration defaults;   *)
(*   - components/Layout.js : dark-mode handling of the Layout component.  *)
(* Strings the code inspects (file names, slugs, environment values) are   *)
(* sequences of one-character strings, so that the regular expression, the *)
(* template literals and decodeURI are computed and not assumed.           *)
(***************************************************************************)
EXTENDS Integers, Sequences, FiniteSets, TLC

VARIABLES
    dir,         \* the posts directory: the files in the order readdirSync lists them
    ret,         \* the last call into mdx-utils and what it returned
    env,         \* process.env restricted to BLOG_NAME, BLOG_TITLE, BLOG_FOOTER_TEXT
    globalData,  \* what the last getGlobalData() call produced
    theme,       \* localStorage item 'theme'
    darkClass,   \* document.documentElement.classList contains 'dark'
    mounted,     \* Layout's mount effects have run
    onchange,    \* darkQuery.onchange is installed
    prefersDark, \* the system colour scheme (prefers-color-scheme: dark)
    events,      \* change events of the media query not yet dispatched (e.matches)
    lastEvent    \* the last event darkQuery.onchange ran on: "none", "matches", "nomatch"

vars == <<dir, ret, env, globalData, theme, darkClass, mounted, onchange, prefersDark, events,
          lastEvent>>
postsVars == <<dir, ret>>
envVars == <<env, globalData>>
layoutVars == <<theme, darkClass, mounted, onchange, prefersDark, events, lastEvent>>

(***************************************************************************)
(* Bounds                                                                  *)
(***************************************************************************)
\* largest number of entries in the posts directory
MaxFiles == 3
\* front-matter dates are the time values 1..MaxDate, or not a date at all
MaxDate == 2
\* largest number of undelivered colour-scheme change events
MaxQueue == 3

(***************************************************************************)
(* Small helpers on sequences                                              *)
(***************************************************************************)
Range(s) == {s[i] : i \in 1..Len(s)}

Perms(n) == {p \in [1..n -> 1..n] : \A i, j \in 1..n : p[i] = p[j] => i = j}

\* JavaScript array indexing: a[k] with a 0-based k, undefined when out of range
Undefined == [undefined |-> TRUE]

At(a, k) == IF k >= 0 /\ k < Len(a) THEN a[k + 1] ELSE Undefined

(***************************************************************************)
(* File names of the model                                                 *)
(***************************************************************************)
ExtMdx == <<".", "m", "d", "x">>
ExtMd == <<".", "m", "d">>

NameAmdx == <<"a">> \o ExtMdx
NameBmdx == <<"b">> \o ExtMdx
NameAmd == <<"a">> \o ExtMd
NameCmdz == <<"c", ".", "m", "d", "z">>

FileNames == {NameAmdx, NameBmdx, NameAmd, NameCmdz}

\* a file that holds no front matter at all
OpaqueNames == {NameCmdz}

Titles == {"T1", "T2"}

\* what matter(source).data.date can be: a date (its time value) or something
\* new Date() turns into an Invalid Date (absent, or not a date)
DateValues == [ok : {TRUE}, t : 1..MaxDate] \cup {[ok |-> FALSE, t |-> 0]}

FrontMatter == [date : DateValues, title : Titles]

NoFrontMatter == [date |-> [ok |-> FALSE, t |-> 0], title |-> "T1"]

Files == [name : FileNames \ OpaqueNames, data : FrontMatter]
           \cup [name : OpaqueNames, data : {NoFrontMatter}]

Directories ==
    UNION {{d \in [1..n -> Files] : \A i, j \in 1..n : d[i].name = d[j].name => i = j}
             : n \in 0..MaxFiles}

Slugs == {<<"a">>, <<"b">>, <<"z">>}

(***************************************************************************)
(* mdx-utils.js                                                            *)
(***************************************************************************)
\* /\.mdx?$/ matching at position i of s
MdxMatchAt(s, i) ==
    /\ i + 2 <= Len(s)
    /\ s[i] = "." /\ s[i + 1] = "m" /\ s[i + 2] = "d"
    /\ \/ i + 2 = Len(s)
       \/ i + 3 = Len(s) /\ s[i + 3] = "x"

\* a plausible slip: the pattern without its end anchor
MdxTestUnanchored(s) ==
    \E i \in 1..Len(s) : i + 2 <= Len(s) /\ s[i] = "." /\ s[i + 1] = "m" /\ s[i + 2] = "d"

\* /\.mdx?$/.test(path)
MdxTest(s) == \E i \in 1..Len(s) : MdxMatchAt(s, i)

\* path.replace(/\.mdx?$/, '')
StripExt(s) ==
    IF \E k \in 1..Len(s) : MdxMatchAt(s, k)
    THEN LET i == CHOOSE k \in 1..Len(s) : MdxMatchAt(s, k) /\ \A j \in 1..(k - 1) : ~MdxMatchAt(s, j)
         IN SubSeq(s, 1, i - 1)
    ELSE s

\* .filter((path) => /\.mdx?$/.test(path))
RECURSIVE FilterMdx(_)
FilterMdx(s) ==
    IF s = <<>> THEN <<>>
    ELSE (IF MdxTest(Head(s)) THEN <<Head(s)>> ELSE <<>>) \o FilterMdx(Tail(s))

\* fs.readdirSync(POSTS_PATH)
readdirSync(d) == [i \in 1..Len(d) |-> d[i].name]

getPostFilePaths(d) == FilterMdx(readdirSync(d))

\* fs.readFileSync + matter: the front matter of the file of that name
HasFile(d, name) == \E i \in 1..Len(d) : d[i].name = name

ReadMatter(d, name) == (CHOOSE f \in Range(d) : f.name = name).data

\* a plausible slip: the operands the other way round (ascending)
CompareDatesAscending(a, b) ==
    IF a.data.date.ok /\ b.data.date.ok
    THEN [nan |-> FALSE, v |-> a.data.date.t - b.data.date.t]
    ELSE [nan |-> TRUE, v |-> 0]

\* the comparator of sortPostsByDate: bDate - aDate, NaN when either is invalid
CompareDates(a, b) ==
    IF a.data.date.ok /\ b.data.date.ok
    THEN [nan |-> FALSE, v |-> b.data.date.t - a.data.date.t]
    ELSE [nan |-> TRUE, v |-> 0]

\* Array.prototype.sort's SortCompare: a NaN from the comparator counts as +0
SortCompare(a, b) == LET c == CompareDates(a, b) IN IF c.nan THEN 0 ELSE c.v

\* ECMAScript's "consistent comparator" on the elements of s
ConsistentComparator(s) ==
    \A a, b, c \in Range(s) :
        /\ (SortCompare(a, b) = 0 /\ SortCompare(b, c) = 0) => SortCompare(a, c) = 0
        /\ (SortCompare(a, b) < 0 /\ SortCompare(b, c) < 0) => SortCompare(a, c) < 0
        /\ (SortCompare(a, b) > 0 /\ SortCompare(b, c) > 0) => SortCompare(a, c) > 0
        /\ (SortCompare(a, b) < 0) <=> (SortCompare(b, a) > 0)

\* x placed behind every element that does not have to come after it (stable)
RECURSIVE InsertStable(_, _)
InsertStable(s, x) ==
    IF s = <<>> THEN <<x>>
    ELSE IF SortCompare(s[Len(s)], x) <= 0 THEN Append(s, x)
    ELSE Append(InsertStable(SubSeq(s, 1, Len(s) - 1), x), s[Len(s)])

RECURSIVE StableSort(_)
StableSort(s) ==
    IF s = <<>> THEN <<>>
    ELSE InsertStable(StableSort(SubSeq(s, 1, Len(s) - 1)), s[Len(s)])

\* Array.prototype.sort: a stable sort under a consistent comparator; under an
\* inconsistent one (an Invalid Date among different dates) the order is
\* implementation-defined: p is the permutation the engine happens to produce
ArraySort(s, p) ==
    IF ConsistentComparator(s) THEN StableSort(s)
    ELSE [i \in 1..Len(s) |-> s[p[i]]]

sortPostsByDate(posts, p) == ArraySort(posts, p)

ReadPosts(d) ==
    LET paths == getPostFilePaths(d)
    IN [i \in 1..Len(paths) |-> [data |-> ReadMatter(d, paths[i]), filePath |-> paths[i]]]

getPosts(d, p) == sortPostsByDate(ReadPosts(d), p)

\* the orders the engine may leave the posts of d in: any at all when the
\* comparator is inconsistent on them, and no choice otherwise
EnginePerms(d) ==
    IF ConsistentComparator(ReadPosts(d))
    THEN {[i \in 1..Len(ReadPosts(d)) |-> i]}
    ELSE Perms(Len(ReadPosts(d)))

\* `${slug}.mdx`
MdxFileName(slug) == slug \o ExtMdx

\* a thrown exception
Throw(e) == [throws |-> e]

\* getPostBySlug without the serialisation of the body
getPostBySlug(d, slug) ==
    LET postFilePath == MdxFileName(slug)
    IN IF HasFile(d, postFilePath)
       THEN [data |-> ReadMatter(d, postFilePath), postFilePath |-> postFilePath]
       ELSE Throw("ENOENT")

\* posts.find(cb) followed by posts.indexOf(found): 0-based, -1 when not found
FindIndex(posts, fileName) ==
    IF \E i \in 1..Len(posts) : posts[i].filePath = fileName
    THEN (CHOOSE i \in 1..Len(posts) :
            /\ posts[i].filePath = fileName
            /\ \A j \in 1..(i - 1) : posts[j].filePath # fileName) - 1
    ELSE -1

Null == [isNull |-> TRUE]

Neighbour(posts, k) ==
    LET post == At(posts, k)
    IN IF post = Undefined THEN Null
       ELSE [isNull |-> FALSE, title |-> post.data.title, slug |-> StripExt(post.filePath)]

getNextPostBySlug(d, p, slug) ==
    LET posts == getPosts(d, p)
    IN Neighbour(posts, FindIndex(posts, MdxFileName(slug)) - 1)

getPreviousPostBySlug(d, p, slug) ==
    LET posts == getPosts(d, p)
    IN Neighbour(posts, FindIndex(posts, MdxFileName(slug)) + 1)

\* The functions keep no state between calls (every call reads POSTS_PATH
\* again), so a behaviour is one directory and one call into the module.
NoCall == [op |-> "none", arg |-> <<>>, val |-> Null]

CallGetPostFilePaths ==
    /\ ret = NoCall
    /\ ret' = [op |-> "getPostFilePaths", arg |-> <<>>, val |-> getPostFilePaths(dir)]
    /\ UNCHANGED <<dir, envVars, layoutVars>>

CallGetPosts ==
    /\ ret = NoCall
    /\ \E p \in EnginePerms(dir) :
          ret' = [op |-> "getPosts", arg |-> <<>>, val |-> getPosts(dir, p)]
    /\ UNCHANGED <<dir, envVars, layoutVars>>

CallGetPostBySlug ==
    /\ ret = NoCall
    /\ \E slug \in Slugs :
          ret' = [op |-> "getPostBySlug", arg |-> slug, val |-> getPostBySlug(dir, slug)]
    /\ UNCHANGED <<dir, envVars, layoutVars>>

CallGetNextPostBySlug ==
    /\ ret = NoCall
    /\ \E slug \in Slugs, p \in EnginePerms(dir) :
          ret' = [op |-> "getNextPostBySlug", arg |-> slug,
                  val |-> getNextPostBySlug(dir, p, slug)]
    /\ UNCHANGED <<dir, envVars, layoutVars>>

CallGetPreviousPostBySlug ==
    /\ ret = NoCall
    /\ \E slug \in Slugs, p \in EnginePerms(dir) :
          ret' = [op |-> "getPreviousPostBySlug", arg |-> slug,
                  val |-> getPreviousPostBySlug(dir, p, slug)]
    /\ UNCHANGED <<dir, envVars, layoutVars>>

(***************************************************************************)
(* getGlobalData                                                           *)
(***************************************************************************)
EnvNames == {"BLOG_NAME", "BLOG_TITLE", "BLOG_FOOTER_TEXT"}

\* an environment variable: not set at all, or set to a string
Unset == [set |-> FALSE, value |-> <<>>]

SetTo(v) == [set |-> TRUE, value |-> v]

EnvValues ==
    {Unset, SetTo(<<>>), SetTo(<<"J">>), SetTo(<<"J", "%", "2", "0", "J">>),
     SetTo(<<"%", "2", "F">>), SetTo(<<"%">>), SetTo(<<"%", "F", "0">>)}

HexDigits == {"0", "1", "2", "3", "4", "5", "6", "7", "8", "9",
              "A", "B", "C", "D", "E", "F", "a", "b", "c", "d", "e", "f"}

HexVal(c) ==
    CASE c = "0" -> 0 [] c = "1" -> 1 [] c = "2" -> 2 [] c = "3" -> 3 [] c = "4" -> 4
      [] c = "5" -> 5 [] c = "6" -> 6 [] c = "7" -> 7 [] c = "8" -> 8 [] c = "9" -> 9
      [] c \in {"A", "a"} -> 10 [] c \in {"B", "b"} -> 11 [] c \in {"C", "c"} -> 12
      [] c \in {"D", "d"} -> 13 [] c \in {"E", "e"} -> 14 [] c \in {"F", "f"} -> 15

\* String.fromCharCode for the code units the model's values can name; any
\* other code unit is written "?"
FromCharCode(b) ==
    CASE b = 32 -> " " [] b = 37 -> "%" [] b = 47 -> "/" [] b = 74 -> "J" [] OTHER -> "?"

\* the characters decodeURI leaves escaped
UriReserved == {";", "/", "?", ":", "@", "&", "=", "+", "$", ",", "#"}

\* the number of leading 1 bits of the octet b
LeadingOnes(b) ==
    IF b < 128 THEN 0 ELSE IF b < 192 THEN 1 ELSE IF b < 224 THEN 2
    ELSE IF b < 240 THEN 3 ELSE IF b < 248 THEN 4 ELSE 5

IsEscapeAt(s, k) ==
    k + 2 <= Len(s) /\ s[k] = "%" /\ s[k + 1] \in HexDigits /\ s[k + 2] \in HexDigits

OctetAt(s, k) == 16 * HexVal(s[k + 1]) + HexVal(s[k + 2])

\* ECMAScript Decode(string, reservedSet) from position k (1-based) on:
\* the decoded rest, or the URIError it throws
RECURSIVE DecodeFrom(_, _)
DecodeFrom(s, k) ==
    IF k > Len(s) THEN [ok |-> TRUE, out |-> <<>>]
    ELSE IF s[k] # "%"
    THEN LET rest == DecodeFrom(s, k + 1)
         IN IF rest.ok THEN [ok |-> TRUE, out |-> <<s[k]>> \o rest.out] ELSE rest
    ELSE IF ~IsEscapeAt(s, k) THEN [ok |-> FALSE, out |-> <<>>]
    ELSE LET b == OctetAt(s, k)
             n == LeadingOnes(b)
         IN IF n = 0
            THEN LET c == FromCharCode(b)
                     piece == IF c \in UriReserved THEN SubSeq(s, k, k + 2) ELSE <<c>>
                     rest == DecodeFrom(s, k + 3)
                 IN IF rest.ok THEN [ok |-> TRUE, out |-> piece \o rest.out] ELSE rest
            ELSE IF n = 1 \/ n > 4 \/ k + 2 + 3 * (n - 1) > Len(s)
            THEN [ok |-> FALSE, out |-> <<>>]
            ELSE IF \E j \in 1..(n - 1) :
                       \/ ~IsEscapeAt(s, k + 3 * j)
                       \/ LeadingOnes(OctetAt(s, k + 3 * j)) # 1
            THEN [ok |-> FALSE, out |-> <<>>]
            ELSE LET rest == DecodeFrom(s, k + 3 * n)
                 IN IF rest.ok THEN [ok |-> TRUE, out |-> <<"?">> \o rest.out] ELSE rest

decodeURI(s) == DecodeFrom(s, 1)

\* a plausible slip: the variable counts as soon as it is set
TruthyWhenSet(v) == v.set

\* the truthiness of process.env.X: undefined and the empty string are falsy
Truthy(v) == v.set /\ v.value # <<>>

DefaultOf(name) ==
    CASE name = "BLOG_NAME" -> <<"Jay Doe">>
      [] name = "BLOG_TITLE" -> <<"Next.js Blog Theme">>
      [] name = "BLOG_FOOTER_TEXT" -> <<"All rights reserved.">>

\* process.env.X ? decodeURI(process.env.X) : default
FieldOf(e, name) ==
    IF Truthy(e[name]) THEN decodeURI(e[name].value) ELSE [ok |-> TRUE, out |-> DefaultOf(name)]

getGlobalData(e) ==
    IF \E n \in EnvNames : ~FieldOf(e, n).ok
    THEN Throw("URIError")
    ELSE [name |-> FieldOf(e, "BLOG_NAME").out,
          blogTitle |-> FieldOf(e, "BLOG_TITLE").out,
          footerText |-> FieldOf(e, "BLOG_FOOTER_TEXT").out]

NotCalled == [called |-> FALSE]

CallGetGlobalData ==
    /\ globalData' = [called |-> TRUE, val |-> getGlobalData(env)]
    /\ UNCHANGED <<env, postsVars, layoutVars>>

(***************************************************************************)
(* Layout.js                                                               *)
(***************************************************************************)
\* localStorage.getItem('theme'): null, or the stored string
ThemeValues == {"null", "dark", "light", "system"}

\* a plausible slip: the light branch missing
setAppThemeDarkOnly(stored, hasDark) ==
    IF stored = "dark" THEN TRUE ELSE hasDark

\* the class list after setAppTheme, given the stored theme
setAppTheme(stored, hasDark) ==
    IF stored = "dark" THEN TRUE
    ELSE IF stored = "light" THEN FALSE
    ELSE hasDark

\* a plausible slip: the branches of the handler the wrong way round
OnChangeInverted(matches) ==
    IF matches
    THEN [darkClass |-> FALSE, theme |-> "light"]
    ELSE [darkClass |-> TRUE, theme |-> "dark"]

\* a plausible slip: the handler switches the class and forgets localStorage
OnChangeClassOnly(matches) == [darkClass |-> matches, theme |-> theme]

\* the handler installed by handleSystemThemeChange, run on an event e:
\* the class list and the stored theme it leaves
OnChange(matches) ==
    IF matches
    THEN [darkClass |-> TRUE, theme |-> "dark"]
    ELSE [darkClass |-> FALSE, theme |-> "light"]

\* both mount effects of Layout: setAppTheme(), then handleSystemThemeChange()
Mount ==
    /\ ~mounted
    /\ mounted' = TRUE
    /\ darkClass' = setAppTheme(theme, darkClass)
    /\ onchange' = TRUE
    /\ UNCHANGED <<theme, prefersDark, events, lastEvent, postsVars, envVars>>

\* Layout leaves the page; neither effect returns a cleanup, nothing is undone
Unmount ==
    /\ mounted
    /\ mounted' = FALSE
    /\ UNCHANGED <<theme, darkClass, onchange, prefersDark, events, lastEvent, postsVars, envVars>>

\* the system colour scheme flips; a media query with a handler gets a change event
SystemThemeChange ==
    /\ Len(events) < MaxQueue
    /\ prefersDark' = ~prefersDark
    /\ events' = IF onchange THEN Append(events, ~prefersDark) ELSE events
    /\ UNCHANGED <<theme, darkClass, mounted, onchange, lastEvent, postsVars, envVars>>

\* the browser dispatches the oldest pending change event to darkQuery.onchange
DispatchChange ==
    /\ events # <<>>
    /\ onchange
    /\ LET after == OnChange(Head(events))
       IN /\ darkClass' = after.darkClass
          /\ theme' = after.theme
    /\ events' = Tail(events)
    /\ lastEvent' = IF Head(events) THEN "matches" ELSE "nomatch"
    /\ UNCHANGED <<mounted, onchange, prefersDark, postsVars, envVars>>

(***************************************************************************)
(* Specifications, one per part of the program                             *)
(***************************************************************************)
PostsIdle == dir = <<>> /\ ret = NoCall

EnvIdle == env = [n \in EnvNames |-> Unset] /\ globalData = NotCalled

LayoutIdle ==
    /\ theme = "null" /\ darkClass = FALSE /\ mounted = FALSE
    /\ onchange = FALSE /\ prefersDark = FALSE /\ events = <<>> /\ lastEvent = "none"

InitPosts ==
    /\ dir \in Directories
    /\ ret = NoCall
    /\ EnvIdle /\ LayoutIdle

NextPosts ==
    \/ CallGetPostFilePaths
    \/ CallGetPosts
    \/ CallGetPostBySlug
    \/ CallGetNextPostBySlug
    \/ CallGetPreviousPostBySlug

SpecPosts == InitPosts /\ [][NextPosts]_vars

InitEnv ==
    /\ env \in [EnvNames -> EnvValues]
    /\ globalData = NotCalled
    /\ PostsIdle /\ LayoutIdle

NextEnv == CallGetGlobalData

SpecEnv == InitEnv /\ [][NextEnv]_vars

InitLayout ==
    /\ theme \in ThemeValues
    /\ darkClass \in BOOLEAN
    /\ prefersDark \in BOOLEAN
    /\ mounted = FALSE /\ onchange = FALSE /\ events = <<>> /\ lastEvent = "none"
    /\ PostsIdle /\ EnvIdle

NextLayout ==
    \/ Mount
    \/ Unmount
    \/ SystemThemeChange
    \/ DispatchChange

SpecLayout == InitLayout /\ [][NextLayout]_vars

(***************************************************************************)
(* Properties                                                              *)
(***************************************************************************)
IsThrow(v) == "throws" \in DOMAIN v

EndsWith(s, suffix) ==
    Len(s) >= Len(suffix) /\ SubSeq(s, Len(s) - Len(suffix) + 1, Len(s)) = suffix

\* the entries of the directory whose names end in .md or .mdx
MarkdownNames(d) ==
    {d[i].name : i \in {k \in 1..Len(d) : EndsWith(d[k].name, ExtMd) \/ EndsWith(d[k].name, ExtMdx)}}

\* the slug of a listed post: its file name without the .md/.mdx extension
SlugOf(post) ==
    IF EndsWith(post.filePath, ExtMdx) THEN SubSeq(post.filePath, 1, Len(post.filePath) - 4)
    ELSE IF EndsWith(post.filePath, ExtMd) THEN SubSeq(post.filePath, 1, Len(post.filePath) - 3)
    ELSE post.filePath

Link(post) == [isNull |-> FALSE, title |-> post.data.title, slug |-> SlugOf(post)]

\* what navigation from slug by step (+1 older, -1 newer) may answer over the
\* list posts: the neighbour of a post with that slug, null where there is none
Answers(posts, slug, step) ==
    LET here == {i \in 1..Len(posts) : SlugOf(posts[i]) = slug}
    IN {Link(posts[i + step]) : i \in {k \in here : k + step \in 1..Len(posts)}}
         \cup (IF here = {} \/ \E k \in here : k + step \notin 1..Len(posts)
               THEN {Null} ELSE {})

\* C1: when every post carries a date, getPosts() lists the posts in
\* descending date order: an earlier position never holds an earlier date.
C1_SortedDescending ==
    (ret.op = "getPosts" /\ \A k \in 1..Len(ret.val) : ret.val[k].data.date.ok)
        => \A i, j \in 1..Len(ret.val) :
              i < j => ret.val[i].data.date.t >= ret.val[j].data.date.t

\* three dated posts, listed by the directory in another order than by date
C1_Witness ==
    /\ ret.op = "getPosts"
    /\ Len(ret.val) = 3
    /\ \A k \in 1..3 : ret.val[k].data.date.ok
    /\ ret.val[1].data.date.t > ret.val[3].data.date.t
    /\ ret.val[1].filePath = dir[Len(dir)].name

\* C2: getPreviousPostBySlug(slug) answers with the title and slug of the post
\* right after the post of that slug in the list of getPosts(), and with null
\* when there is none: for the oldest post and for a slug that matches no post.
C2_PreviousIsNextOlder ==
    ret.op = "getPreviousPostBySlug"
        => \E p \in EnginePerms(dir) : ret.val \in Answers(getPosts(dir, p), ret.arg, 1)

\* C3: getNextPostBySlug(slug) answers with the title and slug of the post
\* right before the post of that slug in the list of getPosts(), and with null
\* when there is none: for the newest post and for a slug that matches no post.
C3_NextIsNextNewer ==
    ret.op = "getNextPostBySlug"
        => \E p \in EnginePerms(dir) : ret.val \in Answers(getPosts(dir, p), ret.arg, -1)

\* C4: getPostFilePaths() returns exactly the entry names ending in .md or
\* .mdx, each once, and getPosts() returns exactly one post per such file.
C4_OnePostPerMarkdownFile ==
    /\ ret.op = "getPostFilePaths"
          => /\ Range(ret.val) = MarkdownNames(dir)
             /\ Len(ret.val) = Cardinality(MarkdownNames(dir))
    /\ ret.op = "getPosts"
          => /\ {ret.val[i].filePath : i \in 1..Len(ret.val)} = MarkdownNames(dir)
             /\ Len(ret.val) = Cardinality(MarkdownNames(dir))

\* a full directory with an entry that is no markdown file, and a sort that
\* had to move a post
C4_Witness ==
    /\ ret.op = "getPosts"
    /\ Len(dir) = 3
    /\ NameCmdz \in Range(readdirSync(dir))
    /\ Len(ret.val) = 2
    /\ ret.val[1].filePath # getPostFilePaths(dir)[1]

EnvField(n) ==
    CASE n = "BLOG_NAME" -> "name"
      [] n = "BLOG_TITLE" -> "blogTitle"
      [] n = "BLOG_FOOTER_TEXT" -> "footerText"

Malformed(e) == {n \in EnvNames : e[n].set /\ e[n].value # <<>> /\ ~decodeURI(e[n].value).ok}

C6_MountAppliesStoredTheme ==
    [][(~mounted /\ mounted')
          => /\ theme = "dark" => darkClass'
             /\ theme = "light" => ~darkClass']_vars

\* mounted on a stored 'light', no event handled since: the class is off
C6_Witness ==
    /\ mounted /\ lastEvent = "none" /\ events = <<>>
    /\ theme = "light" /\ ~darkClass

\* C7: once Layout has mounted, a colour-scheme change is delivered to the
\* handler, and every delivered event sets both the class and localStorage:
\* matches leaves 'dark' on the root and stored, no match leaves the class
\* off and 'light' stored, whatever they were.
C7_ChangeEventSetsClassAndStore ==
    /\ [](mounted => onchange)
    /\ [][(onchange /\ prefersDark' # prefersDark) => events' = Append(events, prefersDark')]_vars
    /\ [][(events # <<>> /\ events' = Tail(events))
             => IF Head(events)
                THEN darkClass' /\ theme' = "dark"
                ELSE ~darkClass' /\ theme' = "light"]_vars

\* the handler has just run on an event without a match
C7_Witness ==
    /\ lastEvent = "nomatch" /\ theme = "light" /\ ~darkClass /\ ~prefersDark
    /\ events = <<>>

\* C8: the slug is a usable key for every listed post: getPostBySlug(slug)
\* reads the post's own file, the navigation functions find the post as the
\* current one, and no two listed posts share a slug.
C8_SlugResolvesToPost ==
    ret.op = "getPosts"
        => /\ \A i \in 1..Len(ret.val) :
                 LET post == ret.val[i]
                 IN /\ getPostBySlug(dir, SlugOf(post))
                          = [data |-> post.data, postFilePath |-> post.filePath]
                    /\ FindIndex(ret.val, MdxFileName(SlugOf(post))) = i - 1
           /\ \A i, j \in 1..Len(ret.val) :
                 SlugOf(ret.val[i]) = SlugOf(ret.val[j]) => i = j

\* C9: over an unchanged directory next and previous are inverse: the
\* previous post of the next post of s is s, and the next post of the
\* previous post of s is s.
C9_NextPreviousInverse ==
    /\ (ret.op = "getNextPostBySlug" /\ ret.val # Null)
          => \E p \in EnginePerms(dir) :
                LET back == getPreviousPostBySlug(dir, p, ret.val.slug)
                IN back # Null /\ back.slug = ret.arg
    /\ (ret.op = "getPreviousPostBySlug" /\ ret.val # Null)
          => \E p \in EnginePerms(dir) :
                LET back == getNextPostBySlug(dir, p, ret.val.slug)
                IN back # Null /\ back.slug = ret.arg

\* C10: once Layout has mounted, a stored 'dark' or 'light' and the class on
\* the root agree in every state, and a mount on any other stored value
\* changes neither the class nor localStorage.
C10_StoredAndShownAgree ==
    /\ [](onchange => (theme \in {"dark", "light"} => (darkClass <=> theme = "dark")))
    /\ [][(~mounted /\ mounted' /\ theme \notin {"dark", "light"})
             => darkClass' = darkClass /\ theme' = theme]_vars

\* mounted, the system went dark and the handler ran, more events pending
C10_Witness ==
    /\ mounted /\ lastEvent = "matches" /\ theme = "dark" /\ darkClass
    /\ events # <<>>

====
